---- MODULE Spec2Model ----
(***************************************************************************)
(* Lot allocation and confirmation engine of cotton-katha: the sales       *)
(* routes (auto-select, save-draft, confirm) and the customer lot routes   *)
(* (GET /lots with its lazy expiry, accept, reject, admin override,        *)
(* checkAndTriggerConfirmation).                                           *)
(*                                                                         *)
(* Every handler is an async function: between two awaited store calls     *)
(* another request may run.  A handler is therefore a sequence of steps,   *)
(* one per awaited store call that reads or writes contended rows,         *)
(* executed by a thread of Threads.  The synchronous code that follows an  *)
(* await belongs to the step of that await.  An awaited call that only     *)
(* appends to a write-only sink (audit_log, the draft and sales webhooks,  *)
(* lot_selected_contract) or reads rows that never change commutes with    *)
(* every step of the other requests; it is taken together with the step    *)
(* before it.  The confirmation webhook is a step of its own: the count    *)
(* that allows it is read by an earlier store call.                        *)
(***************************************************************************)
EXTENDS Integers, Sequences, FiniteSets, TLC

\* ------------------------------------------------------------------ bounds
NLots == 2          \* rows of inventory_table
NOrders == 2        \* rows of sales_configuration (one customer each)
MaxQty == 2         \* largest requested_quantity of an order
MaxSales == 2       \* rows of sales_table that may be inserted
MaxDay == 2         \* last calendar day the clock reaches
MaxRequests == 3    \* requests served in one behaviour
NThreads == 2       \* requests in flight at once

NSelLots == 7       \* rows of inventory_table that auto-select queries
MaxSelQty == 5      \* largest quantity of an auto-select request or order

NIndents == 2       \* rows of allocation (indent numbers)
NLotNumbers == 2    \* lot numbers that a sampling request may carry
MaxSamplingLots == 2 \* longest lots array of a sampling request
NPayments == 2      \* rows of payments
NUtrNumbers == 2    \* UTR numbers that a submit may carry

WindowDays == 1     \* length of the response window given to an assignment

Lots == 1..NLots
Orders == 1..NOrders
Threads == 1..NThreads
Admin == 0          \* the user with role 'admin' (has no customer_info row)
Users == Orders \cup {Admin}
NoCustomer == -1    \* customerInfo?.id when the lookup finds nothing
NoDate == -1        \* responded_at of an assignment without a response
NoUtr == 0          \* payments.utr_number of a payment without a UTR (null)
Indents == 1..NIndents
Payments == 1..NPayments

VARIABLES
  inventory_table,            \* [Lots -> status]
  sales_configuration,        \* [Orders -> [requested_quantity, status]]
  sales_table,                \* Seq of [sales_config_id, status]; the index is the id
  lot_selected_contract,      \* set of <<sales_id, inventory_id>>
  customer_assignment_table,  \* Seq of assignment rows; the index is the id
  audit_log,                  \* Seq of audit rows, in insertion order
  lot_acceptance_webhook,     \* [sales id -> number of confirmation events posted]
  sales_confirmation_webhook, \* [sales id -> number of sales-confirmed events posted]
  today,                      \* new Date().toISOString().split('T')[0]
  pc,                         \* [Threads -> position of the handler]
  req,                        \* [Threads -> request and locals of the handler]
  nrequests,                  \* requests started so far
  sel_inventory,              \* auto-select: status of the inventory rows it queries
  sel_in,                     \* auto-select: the request with its sales configuration
  sel_out,                    \* auto-select: the response
  inventory_rows,             \* Seq of the inventory_table rows that sampling inserted
  payments                    \* [Payments -> [utr_number, payment_status, verified_by]]

db == <<inventory_table, sales_configuration, sales_table, lot_selected_contract,
        customer_assignment_table, audit_log, lot_acceptance_webhook,
        sales_confirmation_webhook>>
sel == <<sel_inventory, sel_in, sel_out>>
rest == <<inventory_rows, payments>>
vars == <<inventory_table, sales_configuration, sales_table, lot_selected_contract,
          customer_assignment_table, audit_log, lot_acceptance_webhook,
          sales_confirmation_webhook, today, pc, req, nrequests, sel_inventory,
          sel_in, sel_out, inventory_rows, payments>>

SalesIds == 1..MaxSales
Terminal == {"ACCEPTED", "REJECTED", "EXPIRED"}

NoRequest == [op |-> "none", actor |-> Admin, id |-> 0, lots |-> {}, lot |-> 0,
              old |-> "NONE", action |-> "none", sid |-> 0, required |-> 0,
              count |-> 0, utr_number |-> NoUtr, outcome |-> "none"]

SelLots == 1..NSelLots
NoSelectRequest == [requested_qty |-> 0, requested_quantity |-> 0,
                    variety |-> "any", fibre_length |-> "any",
                    priority_branch |-> "any"]
NoSelection == [status |-> 0, out_of_stock |-> FALSE, available_lots |-> <<>>,
                auto_selected |-> <<>>, max_allowed |-> 0]

\* ------------------------------------------------------------------ helpers
AssignmentIds == DOMAIN customer_assignment_table

\* req.user.id for a customer, the customer_info row found by e-mail otherwise
CustomerIdOf(u) == IF u = Admin THEN NoCustomer ELSE u

AcceptedLots(s) ==
  {a \in AssignmentIds : /\ customer_assignment_table[a].sales_id = s
                         /\ customer_assignment_table[a].lot_status = "ACCEPTED"}

\* A handler that has responded leaves its thread before anything else runs:
\* the response is the synchronous tail of the handler's last step.
Running == \A t \in Threads : pc[t] # "done"

At(t, label) == Running /\ pc[t] = label

\* A request is taken by the first idle thread (the threads are interchangeable).
Begin(t) ==
  /\ At(t, "idle")
  /\ \A t2 \in Threads : t2 < t => pc[t2] # "idle"
  /\ nrequests < MaxRequests
  /\ nrequests' = nrequests + 1

Goto(t, label, r) ==
  /\ pc' = [pc EXCEPT ![t] = label]
  /\ req' = [req EXCEPT ![t] = r]

Respond(t, r, outcome) == Goto(t, "done", [r EXCEPT !.outcome = outcome])

\* sales_configuration.requested_quantity of order o
RequestedQuantity(o) == IF o < MaxQty THEN o ELSE MaxQty

\* the payments of the CDU generation: pending, without a UTR
NoPayments ==
  [p \in Payments |-> [utr_number |-> NoUtr, payment_status |-> "pending",
                       verified_by |-> NoCustomer]]

\* ------------------------------------------------------------------ init
Init ==
  /\ inventory_table = [l \in Lots |-> "AVAILABLE"]
  /\ sales_configuration =
       [o \in Orders |-> [requested_quantity |-> RequestedQuantity(o),
                          status |-> "pending"]]
  /\ sales_table = <<>>
  /\ lot_selected_contract = {}
  /\ customer_assignment_table = <<>>
  /\ audit_log = <<>>
  /\ lot_acceptance_webhook = [s \in SalesIds |-> 0]
  /\ sales_confirmation_webhook = [s \in SalesIds |-> 0]
  /\ today = 0
  /\ pc = [t \in Threads |-> "idle"]
  /\ req = [t \in Threads |-> NoRequest]
  /\ nrequests = 0
  /\ sel_inventory = [l \in SelLots |-> "AVAILABLE"]
  /\ sel_in = NoSelectRequest
  /\ sel_out = NoSelection
  /\ inventory_rows = <<>>
  /\ payments = NoPayments

\* ------------------------------------------------------------------ clock
Tick ==
  /\ Running
  /\ today < MaxDay
  /\ today' = today + 1
  /\ UNCHANGED <<db, pc, req, nrequests, sel, rest>>

Return(t) ==
  /\ pc[t] = "done"
  /\ Goto(t, "idle", NoRequest)
  /\ UNCHANGED <<db, today, nrequests, sel, rest>>

\* ------------------------------------------------------------------ save-draft
\* sales_configuration.customer_id: order o belongs to customer o
CustomerOfOrder(o) == o

DraftsInFlight == Cardinality({t \in Threads : pc[t] = "sd_insert"})

\* POST /api/sales/save-draft: fetch the configuration and the selected lots
SaveDraftStart(t, c, S) ==
  /\ Begin(t)
  /\ Len(sales_table) + DraftsInFlight < MaxSales
  /\ LET r == [NoRequest EXCEPT !.op = "save-draft", !.id = c, !.lots = S]
     IN  IF c \notin Orders
         THEN Respond(t, r, "NotFound")
         ELSE Goto(t, "sd_insert", r)
  /\ UNCHANGED <<db, today, sel, rest>>

\* insert into sales_table with status DRAFT, then one lot_selected_contract
\* row per selected lot
SdInsert(t) ==
  /\ At(t, "sd_insert")
  /\ sales_table' = Append(sales_table,
                           [sales_config_id |-> req[t].id, status |-> "DRAFT"])
  /\ lot_selected_contract' =
       lot_selected_contract \cup {<<Len(sales_table) + 1, l>> : l \in req[t].lots}
  /\ Goto(t, "sd_block", [req[t] EXCEPT !.sid = Len(sales_table) + 1])
  /\ UNCHANGED <<inventory_table, sales_configuration,
                 customer_assignment_table, audit_log, lot_acceptance_webhook,
                 sales_confirmation_webhook, today, nrequests, sel, rest>>

\* update inventory_table set status = 'BLOCKED' where id in selected_lots
BlockLots(S) == [l \in Lots |-> IF l \in S THEN "BLOCKED" ELSE inventory_table[l]]

SdBlock(t) ==
  /\ At(t, "sd_block")
  /\ inventory_table' = BlockLots(req[t].lots)
  /\ Goto(t, "sd_config", req[t])
  /\ UNCHANGED <<sales_configuration, sales_table, lot_selected_contract,
                 customer_assignment_table, audit_log, lot_acceptance_webhook,
                 sales_confirmation_webhook, today, nrequests, sel, rest>>

\* update sales_configuration set status = 'processing'; audit row, draft
\* notification webhook and the 201 response
SdUpdateConfig(t) ==
  /\ At(t, "sd_config")
  /\ sales_configuration' =
       [sales_configuration EXCEPT ![req[t].id].status = "processing"]
  /\ audit_log' = Append(audit_log,
       [table_name |-> "sales_table", record_id |-> req[t].sid,
        action |-> "SALES_DRAFT_CREATED", user_id |-> req[t].actor,
        old |-> "NONE", new |-> "DRAFT"])
  /\ Respond(t, req[t], "created")
  /\ UNCHANGED <<inventory_table, sales_table, lot_selected_contract,
                 customer_assignment_table, lot_acceptance_webhook,
                 sales_confirmation_webhook, today, nrequests, sel, rest>>

\* ------------------------------------------------------------------ assignments
DraftNotified(s) ==
  \E i \in DOMAIN audit_log : /\ audit_log[i].action = "SALES_DRAFT_CREATED"
                              /\ audit_log[i].record_id = s

Assigned(s) ==
  \E a \in AssignmentIds : customer_assignment_table[a].sales_id = s

RECURSIVE SetToSeq(_)
SetToSeq(S) ==
  IF S = {} THEN <<>>
  ELSE LET m == CHOOSE x \in S : \A y \in S : x <= y
       IN  <<m>> \o SetToSeq(S \ {m})

\* The rows of customer_assignment_table are inserted outside the routes, once
\* the draft has been notified: one PENDING row per lot of the draft, for the
\* order's customer, with the window [today, today + WindowDays].
CreateAssignments(s) ==
  /\ Running
  /\ s \in DOMAIN sales_table
  /\ DraftNotified(s)
  /\ ~ Assigned(s)
  /\ LET lots == SetToSeq({l \in Lots : <<s, l>> \in lot_selected_contract})
     IN  customer_assignment_table' = customer_assignment_table \o
           [i \in DOMAIN lots |->
              [sales_id |-> s, inventory_id |-> lots[i],
               customer_id |-> CustomerOfOrder(sales_table[s].sales_config_id),
               window_end_date |-> today + WindowDays,
               lot_status |-> "PENDING", responded_by |-> NoCustomer,
               responded_at |-> NoDate]]
  /\ UNCHANGED <<inventory_table, sales_configuration, sales_table,
                 lot_selected_contract, audit_log, lot_acceptance_webhook,
                 sales_confirmation_webhook, today, pc, req, nrequests, sel, rest>>

\* SetLotStatus that records neither the actor nor the time
SetLotStatusOnly(a, status, u) ==
  [customer_assignment_table EXCEPT ![a].lot_status = status]

\* update({ lot_status, responded_by: req.user.id, responded_at: new Date() })
SetLotStatus(a, status, u) ==
  [customer_assignment_table EXCEPT ![a].lot_status = status,
                                    ![a].responded_by = u,
                                    ![a].responded_at = today]

SetInventory(l, status) == [inventory_table EXCEPT ![l] = status]

AuditRow(a, action, u, old, new) ==
  [table_name |-> "customer_assignment_table", record_id |-> a,
   action |-> action, user_id |-> u, old |-> old, new |-> new]

\* ------------------------------------------------------------------ checkAndTriggerConfirmation
\* the threshold test of checkAndTriggerConfirmation
EnoughAccepted(acceptedCount, requiredQuantity) == acceptedCount >= requiredQuantity

RequiredQuantity(s) ==
  sales_configuration[sales_table[s].sales_config_id].requested_quantity

\* checkAndTriggerConfirmation(salesId, user): read the sales record and count
\* the ACCEPTED assignments; below the required quantity the caller responds
CheckAndTriggerConfirmation(t) ==
  /\ At(t, "cc_count")
  /\ LET s == req[t].sid
         acceptedCount == Cardinality(AcceptedLots(s))
     IN  IF s \in DOMAIN sales_table
            /\ EnoughAccepted(acceptedCount, RequiredQuantity(s))
         THEN Goto(t, "cc_post", [req[t] EXCEPT !.count = acceptedCount])
         ELSE Respond(t, req[t], "ok")
  /\ UNCHANGED <<db, today, nrequests, sel, rest>>

\* at or above the required quantity: post the confirmation webhook with the
\* count read before, insert the CONFIRMATION_SENT audit row; the caller responds
TriggerConfirmation(t) ==
  /\ At(t, "cc_post")
  /\ lot_acceptance_webhook' =
       [lot_acceptance_webhook EXCEPT ![req[t].sid] = @ + 1]
  /\ audit_log' = Append(audit_log,
       [table_name |-> "sales_table", record_id |-> req[t].sid,
        action |-> "CONFIRMATION_SENT", user_id |-> req[t].actor,
        old |-> "NONE", new |-> "NONE"])
  /\ Respond(t, req[t], "ok")
  /\ UNCHANGED <<inventory_table, sales_configuration, sales_table,
                 lot_selected_contract, customer_assignment_table,
                 sales_confirmation_webhook, today, nrequests, sel, rest>>

\* ------------------------------------------------------------------ accept / reject
\* The checks of accept, in the order the handler makes them.
\* row is the fetched assignment, or NoRow when .single() found none.
NoRow == [lot_status |-> "NONE"]

\* ResponseCheck without the test of lot_status
ResponseCheckNoStatus(row, u, date) ==
  IF row = NoRow THEN "NotFound"
  ELSE IF row.customer_id # CustomerIdOf(u) THEN "Forbidden"
  ELSE IF date > row.window_end_date THEN "WindowExpired"
  ELSE "proceed"

\* ResponseCheck without the test of the window
ResponseCheckNoWindow(row, u, date) ==
  IF row = NoRow THEN "NotFound"
  ELSE IF row.customer_id # CustomerIdOf(u) THEN "Forbidden"
  ELSE IF row.lot_status # "PENDING" THEN "AlreadyResolved"
  ELSE "proceed"

\* ResponseCheck without the test of ownership
ResponseCheckNoOwner(row, u, date) ==
  IF row = NoRow THEN "NotFound"
  ELSE IF date > row.window_end_date THEN "WindowExpired"
  ELSE IF row.lot_status # "PENDING" THEN "AlreadyResolved"
  ELSE "proceed"

ResponseCheck(row, u, date) ==
  IF row = NoRow THEN "NotFound"
  ELSE IF row.customer_id # CustomerIdOf(u) THEN "Forbidden"
  ELSE IF date > row.window_end_date THEN "WindowExpired"
  ELSE IF row.lot_status # "PENDING" THEN "AlreadyResolved"
  ELSE "proceed"

Fetch(a) == IF a \in AssignmentIds THEN customer_assignment_table[a] ELSE NoRow

\* POST /api/customer/accept: fetch the assignment and run the checks
AcceptStart(t, a, u) ==
  /\ Begin(t)
  /\ LET r == [NoRequest EXCEPT !.op = "accept", !.id = a, !.actor = u]
         check == ResponseCheck(Fetch(a), u, today)
     IN  IF check = "proceed"
         THEN Goto(t, "acc_update",
                   [r EXCEPT !.lot = customer_assignment_table[a].inventory_id,
                             !.sid = customer_assignment_table[a].sales_id])
         ELSE Respond(t, r, check)
  /\ UNCHANGED <<db, today, sel, rest>>

\* update customer_assignment_table set lot_status = 'ACCEPTED' where id = ...
AccUpdate(t) ==
  /\ At(t, "acc_update")
  /\ customer_assignment_table' = SetLotStatus(req[t].id, "ACCEPTED", req[t].actor)
  /\ Goto(t, "acc_inventory", req[t])
  /\ UNCHANGED <<inventory_table, sales_configuration, sales_table,
                 lot_selected_contract, audit_log, lot_acceptance_webhook,
                 sales_confirmation_webhook, today, nrequests, sel, rest>>

\* update inventory_table set status = 'SOLD'; audit row ACCEPTED
AccInventory(t) ==
  /\ At(t, "acc_inventory")
  /\ inventory_table' = SetInventory(req[t].lot, "SOLD")
  /\ audit_log' = Append(audit_log,
       AuditRow(req[t].id, "ACCEPTED", req[t].actor, "PENDING", "ACCEPTED"))
  /\ Goto(t, "cc_count", req[t])
  /\ UNCHANGED <<sales_configuration, sales_table, lot_selected_contract,
                 customer_assignment_table, lot_acceptance_webhook,
                 sales_confirmation_webhook, today, nrequests, sel, rest>>

\* RejectCheck that looks at lot_status before the owner and the window
RejectCheckStatusFirst(row, u, date) ==
  IF row = NoRow THEN "NotFound"
  ELSE IF row.lot_status # "PENDING" THEN "AlreadyResolved"
  ELSE IF row.customer_id # CustomerIdOf(u) THEN "Forbidden"
  ELSE IF date > row.window_end_date THEN "WindowExpired"
  ELSE "proceed"

\* the checks of reject, written out a second time in its handler
RejectCheck(row, u, date) ==
  IF row = NoRow THEN "NotFound"
  ELSE IF row.customer_id # CustomerIdOf(u) THEN "Forbidden"
  ELSE IF date > row.window_end_date THEN "WindowExpired"
  ELSE IF row.lot_status # "PENDING" THEN "AlreadyResolved"
  ELSE "proceed"

\* POST /api/customer/reject
RejectStart(t, a, u) ==
  /\ Begin(t)
  /\ LET r == [NoRequest EXCEPT !.op = "reject", !.id = a, !.actor = u]
         check == RejectCheck(Fetch(a), u, today)
     IN  IF check = "proceed"
         THEN Goto(t, "rej_update",
                   [r EXCEPT !.lot = customer_assignment_table[a].inventory_id,
                             !.sid = customer_assignment_table[a].sales_id])
         ELSE Respond(t, r, check)
  /\ UNCHANGED <<db, today, sel, rest>>

RejUpdate(t) ==
  /\ At(t, "rej_update")
  /\ customer_assignment_table' = SetLotStatus(req[t].id, "REJECTED", req[t].actor)
  /\ Goto(t, "rej_inventory", req[t])
  /\ UNCHANGED <<inventory_table, sales_configuration, sales_table,
                 lot_selected_contract, audit_log, lot_acceptance_webhook,
                 sales_confirmation_webhook, today, nrequests, sel, rest>>

\* update inventory_table set status = 'AVAILABLE'; audit row REJECTED
RejInventory(t) ==
  /\ At(t, "rej_inventory")
  /\ inventory_table' = SetInventory(req[t].lot, "AVAILABLE")
  /\ audit_log' = Append(audit_log,
       AuditRow(req[t].id, "REJECTED", req[t].actor, "PENDING", "REJECTED"))
  /\ Respond(t, req[t], "ok")
  /\ UNCHANGED <<sales_configuration, sales_table, lot_selected_contract,
                 customer_assignment_table, lot_acceptance_webhook,
                 sales_confirmation_webhook, today, nrequests, sel, rest>>

\* ------------------------------------------------------------------ admin override
\* POST /api/customer/admin/override (authorizeRoles('admin')): fetch the assignment
OverrideStart(t, a, action) ==
  /\ Begin(t)
  /\ LET r == [NoRequest EXCEPT !.op = "override", !.id = a, !.actor = Admin,
                                !.action = action, !.old = Fetch(a).lot_status]
     IN  IF Fetch(a) = NoRow
         THEN Respond(t, r, "NotFound")
         ELSE Goto(t, "ov_update",
                   [r EXCEPT !.lot = customer_assignment_table[a].inventory_id,
                             !.sid = customer_assignment_table[a].sales_id])
  /\ UNCHANGED <<db, today, sel, rest>>

NewStatus(action) == IF action = "accept" THEN "ACCEPTED" ELSE "REJECTED"
\* InventoryStatus that releases no lot
InventoryStatusSold(action) == "SOLD"
InventoryStatus(action) == IF action = "accept" THEN "SOLD" ELSE "AVAILABLE"

OvUpdate(t) ==
  /\ At(t, "ov_update")
  /\ customer_assignment_table' =
       SetLotStatus(req[t].id, NewStatus(req[t].action), req[t].actor)
  /\ Goto(t, "ov_inventory", req[t])
  /\ UNCHANGED <<inventory_table, sales_configuration, sales_table,
                 lot_selected_contract, audit_log, lot_acceptance_webhook,
                 sales_confirmation_webhook, today, nrequests, sel, rest>>

\* update inventory_table; audit row ADMIN_OVERRIDE whose old_values is the
\* status fetched at the start of the handler
OvInventory(t) ==
  /\ At(t, "ov_inventory")
  /\ inventory_table' = SetInventory(req[t].lot, InventoryStatus(req[t].action))
  /\ audit_log' = Append(audit_log,
       AuditRow(req[t].id, "ADMIN_OVERRIDE", req[t].actor, req[t].old,
                NewStatus(req[t].action)))
  /\ IF req[t].action = "accept"
     THEN Goto(t, "cc_count", req[t])
     ELSE Respond(t, req[t], "ok")
  /\ UNCHANGED <<sales_configuration, sales_table, lot_selected_contract,
                 customer_assignment_table, lot_acceptance_webhook,
                 sales_confirmation_webhook, today, nrequests, sel, rest>>

\* ------------------------------------------------------------------ GET /lots
\* IsWithinWindow that ends the window before its last day
IsWithinWindowExclusive(date, row) == date < row.window_end_date
IsWithinWindow(date, row) == date <= row.window_end_date

\* the PENDING assignments of customer c that GET /lots files under expired
ExpiredAssignments(c, date) ==
  {a \in AssignmentIds :
     /\ customer_assignment_table[a].customer_id = c
     /\ customer_assignment_table[a].lot_status = "PENDING"
     /\ ~ IsWithinWindow(date, customer_assignment_table[a])}

\* GET /api/customer/lots: fetch the customer's assignments and categorise them
GetLotsStart(t, u) ==
  /\ Begin(t)
  /\ LET r == [NoRequest EXCEPT !.op = "lots", !.actor = u]
         expired == ExpiredAssignments(CustomerIdOf(u), today)
     IN  IF CustomerIdOf(u) = NoCustomer
         THEN Respond(t, r, "NotFound")
         ELSE IF expired = {}
         THEN Respond(t, r, "ok")
         ELSE Goto(t, "gl_expire", [r EXCEPT !.lots = expired])
  /\ UNCHANGED <<db, today, sel, rest>>

\* update ... set lot_status = 'EXPIRED' where id in expiredIds
GlExpire(t) ==
  /\ At(t, "gl_expire")
  /\ customer_assignment_table' =
       [a \in AssignmentIds |->
          IF a \in req[t].lots
          THEN [customer_assignment_table[a] EXCEPT !.lot_status = "EXPIRED",
                                                    !.responded_at = today]
          ELSE customer_assignment_table[a]]
  /\ Goto(t, "gl_inventory", req[t])
  /\ UNCHANGED <<inventory_table, sales_configuration, sales_table,
                 lot_selected_contract, audit_log, lot_acceptance_webhook,
                 sales_confirmation_webhook, today, nrequests, sel, rest>>

\* update inventory_table set status = 'AVAILABLE' where id in expiredInventoryIds
GlInventory(t) ==
  /\ At(t, "gl_inventory")
  /\ inventory_table' =
       [l \in Lots |->
          IF \E a \in req[t].lots : customer_assignment_table[a].inventory_id = l
          THEN "AVAILABLE" ELSE inventory_table[l]]
  /\ Respond(t, req[t], "ok")
  /\ UNCHANGED <<sales_configuration, sales_table, lot_selected_contract,
                 customer_assignment_table, audit_log, lot_acceptance_webhook,
                 sales_confirmation_webhook, today, nrequests, sel, rest>>

\* ------------------------------------------------------------------ confirm
\* createOrUpdateSalesDraft: the DRAFT row of the configuration when .single()
\* finds exactly one, else the placeholder id 'new-draft-id' (no row has it)
NewDraftId == 0

ExistingDraft(c) ==
  LET drafts == {s \in DOMAIN sales_table :
                   /\ sales_table[s].sales_config_id = c
                   /\ sales_table[s].status = "DRAFT"}
  IN  IF Cardinality(drafts) = 1 THEN CHOOSE s \in drafts : TRUE ELSE NewDraftId

\* POST /api/sales/confirm
ConfirmStart(t, c) ==
  /\ Begin(t)
  /\ Goto(t, "cf_update",
          [NoRequest EXCEPT !.op = "confirm", !.id = c, !.sid = ExistingDraft(c)])
  /\ UNCHANGED <<db, today, sel, rest>>

\* update sales_table set status = 'CONFIRMED' where id = salesRecord.id
CfUpdate(t) ==
  /\ At(t, "cf_update")
  /\ IF req[t].sid \in DOMAIN sales_table
     THEN /\ sales_table' = [sales_table EXCEPT ![req[t].sid].status = "CONFIRMED"]
          /\ Goto(t, "cf_config", req[t])
     ELSE /\ UNCHANGED sales_table
          /\ Respond(t, req[t], "error")
  /\ UNCHANGED <<inventory_table, sales_configuration, lot_selected_contract,
                 customer_assignment_table, audit_log, lot_acceptance_webhook,
                 sales_confirmation_webhook, today, nrequests, sel, rest>>

\* update sales_configuration set status = 'completed'; audit row, sales
\* confirmation webhook and the response
CfConfig(t) ==
  /\ At(t, "cf_config")
  /\ sales_configuration' =
       [sales_configuration EXCEPT ![req[t].id].status = "completed"]
  /\ audit_log' = Append(audit_log,
       [table_name |-> "sales_table", record_id |-> req[t].sid,
        action |-> "SALES_CONFIRMED", user_id |-> req[t].actor,
        old |-> "NONE", new |-> "CONFIRMED"])
  /\ sales_confirmation_webhook' =
       [sales_confirmation_webhook EXCEPT ![req[t].sid] = @ + 1]
  /\ Respond(t, req[t], "ok")
  /\ UNCHANGED <<inventory_table, sales_table, lot_selected_contract,
                 customer_assignment_table, lot_acceptance_webhook, today,
                 nrequests, sel, rest>>

\* ------------------------------------------------------------------ specification
\* the requests that may arrive
SaveDraftRequest ==
  \E t \in Threads, c \in Orders \cup {0}, S \in SUBSET Lots \ {{}} :
     SaveDraftStart(t, c, S)

AcceptRequest ==
  \E t \in Threads, a \in 1..(Len(customer_assignment_table) + 1), u \in Users :
     AcceptStart(t, a, u)

RejectRequest ==
  \E t \in Threads, a \in 1..(Len(customer_assignment_table) + 1), u \in Users :
     RejectStart(t, a, u)

OverrideRequest ==
  \E t \in Threads, a \in 1..(Len(customer_assignment_table) + 1),
     action \in {"accept", "reject"} : OverrideStart(t, a, action)

GetLotsRequest == \E t \in Threads, u \in Users : GetLotsStart(t, u)

ConfirmRequest == \E t \in Threads, c \in Orders : ConfirmStart(t, c)

Next ==
  \/ Tick
  \/ \E t \in Threads : Return(t)
  \/ SaveDraftRequest
  \/ \E t \in Threads : SdInsert(t)
  \/ \E t \in Threads : SdBlock(t)
  \/ \E t \in Threads : SdUpdateConfig(t)
  \/ \E s \in SalesIds : CreateAssignments(s)
  \/ AcceptRequest
  \/ \E t \in Threads : AccUpdate(t)
  \/ \E t \in Threads : AccInventory(t)
  \/ RejectRequest
  \/ \E t \in Threads : RejUpdate(t)
  \/ \E t \in Threads : RejInventory(t)
  \/ OverrideRequest
  \/ \E t \in Threads : OvUpdate(t)
  \/ \E t \in Threads : OvInventory(t)
  \/ \E t \in Threads : CheckAndTriggerConfirmation(t)
  \/ \E t \in Threads : TriggerConfirmation(t)
  \/ GetLotsRequest
  \/ \E t \in Threads : GlExpire(t)
  \/ \E t \in Threads : GlInventory(t)
  \/ ConfirmRequest
  \/ \E t \in Threads : CfUpdate(t)
  \/ \E t \in Threads : CfConfig(t)

Spec == Init /\ [][Next]_vars

\* ------------------------------------------------------------------ store errors
\* save-draft when a store call returns an error.  The handler throws on
\* salesError, selectionsError and blockError, and its catch answers 500; it
\* does not look at the result of the update of sales_configuration.

\* insert into sales_table fails
SdInsertError(t) ==
  /\ At(t, "sd_insert")
  /\ Respond(t, req[t], "error")
  /\ UNCHANGED <<db, today, nrequests, sel, rest>>

\* insert into sales_table succeeds, insert into lot_selected_contract fails
SdSelectionsError(t) ==
  /\ At(t, "sd_insert")
  /\ sales_table' = Append(sales_table,
                           [sales_config_id |-> req[t].id, status |-> "DRAFT"])
  /\ Respond(t, [req[t] EXCEPT !.sid = Len(sales_table) + 1], "error")
  /\ UNCHANGED <<inventory_table, sales_configuration, lot_selected_contract,
                 customer_assignment_table, audit_log, lot_acceptance_webhook,
                 sales_confirmation_webhook, today, nrequests, sel, rest>>

\* update of inventory_table to BLOCKED fails
SdBlockError(t) ==
  /\ At(t, "sd_block")
  /\ Respond(t, req[t], "error")
  /\ UNCHANGED <<db, today, nrequests, sel, rest>>

\* update of sales_configuration fails: the handler goes on to the audit row,
\* the draft webhook and the 201 response
SdConfigError(t) ==
  /\ At(t, "sd_config")
  /\ audit_log' = Append(audit_log,
       [table_name |-> "sales_table", record_id |-> req[t].sid,
        action |-> "SALES_DRAFT_CREATED", user_id |-> req[t].actor,
        old |-> "NONE", new |-> "DRAFT"])
  /\ Respond(t, req[t], "created")
  /\ UNCHANGED <<inventory_table, sales_configuration, sales_table,
                 lot_selected_contract, customer_assignment_table,
                 lot_acceptance_webhook, sales_confirmation_webhook, today,
                 nrequests, sel, rest>>

NextStoreError ==
  \/ \E t \in Threads : Return(t)
  \/ SaveDraftRequest
  \/ \E t \in Threads : SdInsert(t)
  \/ \E t \in Threads : SdBlock(t)
  \/ \E t \in Threads : SdUpdateConfig(t)
  \/ \E t \in Threads : SdInsertError(t)
  \/ \E t \in Threads : SdSelectionsError(t)
  \/ \E t \in Threads : SdBlockError(t)
  \/ \E t \in Threads : SdConfigError(t)

SpecStoreError == Init /\ [][NextStoreError]_vars

\* ------------------------------------------------------------------ expiry
\* The routes that expire assignments, with what the server schedules: a
\* handler that was entered runs to its response, the clock advances, a
\* notified draft gets its assignments.  Requests arrive when a client sends
\* them; the server starts no task of its own (no timer, no scheduled job).
NextExpiry ==
  \/ Tick
  \/ \E t \in Threads : Return(t)
  \/ SaveDraftRequest
  \/ \E t \in Threads : SdInsert(t)
  \/ \E t \in Threads : SdBlock(t)
  \/ \E t \in Threads : SdUpdateConfig(t)
  \/ \E s \in SalesIds : CreateAssignments(s)
  \/ GetLotsRequest
  \/ \E t \in Threads : GlExpire(t)
  \/ \E t \in Threads : GlInventory(t)

FairExpiry ==
  /\ WF_vars(Tick)
  /\ \A s \in SalesIds : WF_vars(CreateAssignments(s))
  /\ \A t \in Threads :
        WF_vars(Return(t) \/ SdInsert(t) \/ SdBlock(t) \/ SdUpdateConfig(t)
                \/ GlExpire(t) \/ GlInventory(t))

SpecExpiry == Init /\ [][NextExpiry]_vars /\ FairExpiry

\* ------------------------------------------------------------------ confirmation errors
\* checkAndTriggerConfirmation when a call inside it fails.  A failed read of
\* the sales record or of the ACCEPTED assignments is logged and the function
\* returns; a failed post of the webhook is caught and logged.  Either way the
\* caller answers its success and nothing calls the function again.

\* the read of the sales record or the count of ACCEPTED assignments fails
CheckConfirmationError(t) ==
  /\ At(t, "cc_count")
  /\ Respond(t, req[t], "ok")
  /\ UNCHANGED <<db, today, nrequests, sel, rest>>

\* the post of the confirmation webhook fails
TriggerConfirmationError(t) ==
  /\ At(t, "cc_post")
  /\ Respond(t, req[t], "ok")
  /\ UNCHANGED <<db, today, nrequests, sel, rest>>

NextConfirmation ==
  \/ \E t \in Threads : Return(t)
  \/ SaveDraftRequest
  \/ \E t \in Threads : SdInsert(t)
  \/ \E t \in Threads : SdBlock(t)
  \/ \E t \in Threads : SdUpdateConfig(t)
  \/ \E s \in SalesIds : CreateAssignments(s)
  \/ AcceptRequest
  \/ \E t \in Threads : AccUpdate(t)
  \/ \E t \in Threads : AccInventory(t)
  \/ \E t \in Threads : CheckAndTriggerConfirmation(t)
  \/ \E t \in Threads : CheckConfirmationError(t)
  \/ \E t \in Threads : TriggerConfirmation(t)
  \/ \E t \in Threads : TriggerConfirmationError(t)

\* a handler that has started runs to its response, whatever its store and
\* webhook calls return; no request is bound to arrive
FairConfirmation ==
  /\ \A s \in SalesIds : WF_vars(CreateAssignments(s))
  /\ \A t \in Threads :
        WF_vars(Return(t) \/ SdInsert(t) \/ SdBlock(t) \/ SdUpdateConfig(t)
                \/ AccUpdate(t) \/ AccInventory(t)
                \/ CheckAndTriggerConfirmation(t) \/ CheckConfirmationError(t)
                \/ TriggerConfirmation(t) \/ TriggerConfirmationError(t))

SpecConfirmation == Init /\ [][NextConfirmation]_vars /\ FairConfirmation

\* ------------------------------------------------------------------ sampling save
\* the lots arrays that a request may carry (lot numbers, repeats included)
LotArrays ==
  UNION {[1..n -> 1..NLotNumbers] : n \in 1..MaxSamplingLots}

\* existingLots: the inventory rows of an indent number
ExistingLots(indent) ==
  {i \in DOMAIN inventory_rows : inventory_rows[i].indent_number = indent}

\* [...new Set(lots)]
UniqueLots(lots) == {lots[i] : i \in DOMAIN lots}

\* inventoryEntries: one row per lot number, with status AVAILABLE
InventoryEntries(indent, lots) ==
  [i \in DOMAIN lots |-> [indent_number |-> indent, lot_number |-> lots[i],
                          status |-> "AVAILABLE"]]

\* POST /api/sampling/save: fetch the allocation, read the indent's rows of
\* inventory_table, validate the lot numbers
SamplingSaveStart(t, indent, lots) ==
  /\ Begin(t)
  /\ LET r == [NoRequest EXCEPT !.op = "sampling-save", !.id = indent,
                                !.lots = lots]
     IN  IF indent \notin Indents
         THEN Respond(t, r, "NotFound")
         ELSE IF ExistingLots(indent) # {}
         THEN Respond(t, r, "AlreadySampled")
         ELSE IF Cardinality(UniqueLots(lots)) # Len(lots)
         THEN Respond(t, r, "DuplicateLots")
         ELSE Goto(t, "ss_insert", r)
  /\ UNCHANGED <<db, today, sel, rest>>

\* insert the entries, then the SAMPLING_COMPLETED audit row and the 201
SsInsert(t) ==
  /\ At(t, "ss_insert")
  /\ inventory_rows' = inventory_rows \o InventoryEntries(req[t].id, req[t].lots)
  /\ audit_log' = Append(audit_log,
       [table_name |-> "inventory_table", record_id |-> req[t].id,
        action |-> "SAMPLING_COMPLETED", user_id |-> req[t].actor,
        old |-> "NONE", new |-> "AVAILABLE"])
  /\ Respond(t, req[t], "created")
  /\ UNCHANGED <<inventory_table, sales_configuration, sales_table,
                 lot_selected_contract, customer_assignment_table,
                 lot_acceptance_webhook, sales_confirmation_webhook, today,
                 nrequests, sel, payments>>

\* the insert returns an error: 500, nothing inserted
SsInsertError(t) ==
  /\ At(t, "ss_insert")
  /\ Respond(t, req[t], "error")
  /\ UNCHANGED <<db, today, nrequests, sel, rest>>

SamplingSaveRequest ==
  \E t \in Threads, indent \in Indents \cup {0}, lots \in LotArrays :
     SamplingSaveStart(t, indent, lots)

NextSampling ==
  \/ \E t \in Threads : Return(t)
  \/ SamplingSaveRequest
  \/ \E t \in Threads : SsInsert(t)
  \/ \E t \in Threads : SsInsertError(t)

SpecSampling == Init /\ [][NextSampling]_vars

\* ------------------------------------------------------------------ UTR submit
UtrNumbers == 1..NUtrNumbers

\* POST /api/utr/submit: fetch the payment, refuse when it has a utr_number
UtrSubmitStart(t, p, utr, u) ==
  /\ Begin(t)
  /\ LET r == [NoRequest EXCEPT !.op = "utr-submit", !.id = p, !.actor = u,
                                !.utr_number = utr]
     IN  IF p \notin Payments
         THEN Respond(t, r, "NotFound")
         ELSE IF payments[p].utr_number # NoUtr
         THEN Respond(t, r, "UTR already submitted")
         ELSE Goto(t, "utr_update", r)
  /\ UNCHANGED <<db, today, sel, rest>>

\* update payments set utr_number, payment_status = 'verified', verified_by
\* where id = payment_id; then the UTR_SUBMITTED audit row and the response
UtrUpdate(t) ==
  /\ At(t, "utr_update")
  /\ payments' = [payments EXCEPT ![req[t].id] =
                    [utr_number |-> req[t].utr_number,
                     payment_status |-> "verified",
                     verified_by |-> req[t].actor]]
  /\ audit_log' = Append(audit_log,
       [table_name |-> "payments", record_id |-> req[t].id,
        action |-> "UTR_SUBMITTED", user_id |-> req[t].actor,
        old |-> "pending", new |-> "verified"])
  /\ Respond(t, req[t], "ok")
  /\ UNCHANGED <<inventory_table, sales_configuration, sales_table,
                 lot_selected_contract, customer_assignment_table,
                 lot_acceptance_webhook, sales_confirmation_webhook, today,
                 nrequests, sel, inventory_rows>>

\* the update returns an error: 500, nothing stored
UtrUpdateError(t) ==
  /\ At(t, "utr_update")
  /\ Respond(t, req[t], "error")
  /\ UNCHANGED <<db, today, nrequests, sel, rest>>

UtrSubmitRequest ==
  \E t \in Threads, p \in Payments \cup {0}, utr \in UtrNumbers, u \in Users :
     UtrSubmitStart(t, p, utr, u)

NextUtr ==
  \/ \E t \in Threads : Return(t)
  \/ UtrSubmitRequest
  \/ \E t \in Threads : UtrUpdate(t)
  \/ \E t \in Threads : UtrUpdateError(t)

SpecUtr == Init /\ [][NextUtr]_vars

\* ------------------------------------------------------------------ auto-select
\* The columns of the inventory rows that the query filters and orders on.
\* created_at is distinct per row and differs from the order of the ids.
Variety(l) == IF l % 3 = 0 THEN "V2" ELSE "V1"
FibreLength(l) == IF l % 4 = 0 THEN "F2" ELSE "F1"
Branch(l) == IF l % 5 = 0 THEN "B2" ELSE "B1"
CreatedAt(l) == IF l % 2 = 1 THEN l + 1 ELSE l - 1

\* Math.floor(base * 0.2)
Extra(base) == base \div 5
MaxLimit(requested_qty) == requested_qty + Extra(requested_qty)

\* MatchingLots without .eq('status', 'AVAILABLE')
MatchingLotsAnyStatus(inv, cfg) ==
  {l \in DOMAIN inv :
     /\ cfg.fibre_length # "any" => FibreLength(l) = cfg.fibre_length
     /\ cfg.variety # "any" => Variety(l) = cfg.variety
     /\ cfg.priority_branch # "any" => Branch(l) = cfg.priority_branch}

\* .eq('status', 'AVAILABLE'), then the filters of line_specs and priority_branch
MatchingLots(inv, cfg) ==
  {l \in DOMAIN inv :
     /\ inv[l] = "AVAILABLE"
     /\ cfg.fibre_length # "any" => FibreLength(l) = cfg.fibre_length
     /\ cfg.variety # "any" => Variety(l) = cfg.variety
     /\ cfg.priority_branch # "any" => Branch(l) = cfg.priority_branch}

\* .order('created_at', { ascending: true })
RECURSIVE OrderByCreatedAt(_)
OrderByCreatedAt(S) ==
  IF S = {} THEN <<>>
  ELSE LET first == CHOOSE x \in S : \A y \in S : CreatedAt(x) <= CreatedAt(y)
       IN  <<first>> \o OrderByCreatedAt(S \ {first})

Min(a, b) == IF a < b THEN a ELSE b

\* .limit(n) of a query, slice(0, n) of an array
Limit(rows, n) == SubSeq(rows, 1, Min(n, Len(rows)))

\* AutoSelectResponse that reports out_of_stock below the requested quantity
AutoSelectResponseFloor(inv, cfg) ==
  LET maxLimit == MaxLimit(cfg.requested_qty)
      availableLots == Limit(OrderByCreatedAt(MatchingLots(inv, cfg)), maxLimit)
  IN  IF Len(availableLots) < cfg.requested_qty
      THEN [status |-> 200, out_of_stock |-> TRUE, available_lots |-> <<>>,
            auto_selected |-> <<>>, max_allowed |-> 0]
      ELSE [status |-> 200, out_of_stock |-> FALSE,
            available_lots |-> availableLots,
            auto_selected |-> Limit(availableLots, Min(maxLimit, Len(availableLots))),
            max_allowed |-> maxLimit]

\* the response of POST /api/sales/auto-select-lots
AutoSelectResponse(inv, cfg) ==
  LET maxLimit == MaxLimit(cfg.requested_qty)
      availableLots == Limit(OrderByCreatedAt(MatchingLots(inv, cfg)), maxLimit)
  IN  IF Len(availableLots) = 0
      THEN [status |-> 200, out_of_stock |-> TRUE, available_lots |-> <<>>,
            auto_selected |-> <<>>, max_allowed |-> 0]
      ELSE [status |-> 200, out_of_stock |-> FALSE,
            available_lots |-> availableLots,
            auto_selected |-> Limit(availableLots, Min(maxLimit, Len(availableLots))),
            max_allowed |-> maxLimit]

\* The states of the rows that the query may meet: any set of them AVAILABLE,
\* the others BLOCKED or SOLD.
SelInventories ==
  {[l \in SelLots |-> IF l \in A THEN "AVAILABLE"
                      ELSE IF l % 2 = 0 THEN "SOLD" ELSE "BLOCKED"] :
     A \in SUBSET SelLots}

\* a request: requested_qty of the body, and the fetched sales configuration
\* with its requested_quantity, line_specs and priority_branch
SelectRequests ==
  [requested_qty : 1..MaxSelQty, requested_quantity : 1..MaxSelQty,
   variety : {"any", "V1", "V2"}, fibre_length : {"any", "F1", "F2"},
   priority_branch : {"any", "B1", "B2"}]

AutoSelectLots(cfg) ==
  /\ sel_out = NoSelection
  /\ sel_in' = cfg
  /\ sel_out' = AutoSelectResponse(sel_inventory, cfg)
  /\ UNCHANGED <<db, today, pc, req, nrequests, sel_inventory, rest>>

InitSelect ==
  /\ inventory_table = [l \in Lots |-> "AVAILABLE"]
  /\ sales_configuration =
       [o \in Orders |-> [requested_quantity |-> RequestedQuantity(o),
                          status |-> "pending"]]
  /\ sales_table = <<>>
  /\ lot_selected_contract = {}
  /\ customer_assignment_table = <<>>
  /\ audit_log = <<>>
  /\ lot_acceptance_webhook = [s \in SalesIds |-> 0]
  /\ sales_confirmation_webhook = [s \in SalesIds |-> 0]
  /\ today = 0
  /\ pc = [t \in Threads |-> "idle"]
  /\ req = [t \in Threads |-> NoRequest]
  /\ nrequests = 0
  /\ sel_inventory \in SelInventories
  /\ sel_in = NoSelectRequest
  /\ sel_out = NoSelection
  /\ inventory_rows = <<>>
  /\ payments = NoPayments

NextSelect == \E cfg \in SelectRequests : AutoSelectLots(cfg)

SpecSelect == InitSelect /\ [][NextSelect]_vars

\* ================================================================== claims

\* the drafts (by order) whose save-draft succeeded over lot l and whose claim
\* on l has not been released by a REJECTED or EXPIRED assignment
Released(s, l) ==
  \E a \in AssignmentIds :
     /\ customer_assignment_table[a].sales_id = s
     /\ customer_assignment_table[a].inventory_id = l
     /\ customer_assignment_table[a].lot_status \in {"REJECTED", "EXPIRED"}

HoldingOrders(l) ==
  {sales_table[s].sales_config_id :
     s \in {x \in DOMAIN sales_table :
              /\ <<x, l>> \in lot_selected_contract
              /\ DraftNotified(x)
              /\ ~ Released(x, l)}}

\* C1 (exclusivity): no lot is BLOCKED or SOLD on behalf of more than one order
\* at once; of two drafts saved over overlapping lot sets at most one holds a
\* given lot.
C1_Exclusivity ==
  \A l \in Lots :
     inventory_table[l] \in {"BLOCKED", "SOLD"} => Cardinality(HoldingOrders(l)) <= 1

\* C2 (claim is all-or-nothing): when save-draft reaches its claim with a lot
\* set of which some lot is not AVAILABLE, the call fails with LotsUnavailable
\* and no lot changes claim-state.
C2_ClaimAllOrNothing ==
  [][\A t \in Threads :
       (/\ pc[t] = "sd_block"
        /\ pc'[t] # "sd_block"
        /\ \E l \in req[t].lots : inventory_table[l] # "AVAILABLE")
       => (/\ pc'[t] = "done"
           /\ req'[t].outcome = "LotsUnavailable"
           /\ inventory_table' = inventory_table)]_vars

\* C3 (terminal exactly once): once the status of an assignment is ACCEPTED,
\* REJECTED or EXPIRED, only the admin override changes it again; of concurrent
\* accept, reject and lazy expiry at most one makes the transition.
C3_TerminalOnce ==
  [][\A a \in AssignmentIds :
       (/\ customer_assignment_table[a].lot_status \in Terminal
        /\ customer_assignment_table'[a].lot_status #
             customer_assignment_table[a].lot_status)
       => \E t \in Threads : pc[t] = "ov_update" /\ pc'[t] = "ov_inventory"]_vars

\* thread t takes a customer's accept or reject call in this step
ResponseCall(t) ==
  /\ pc[t] = "idle"
  /\ pc'[t] # "idle"
  /\ req'[t].op \in {"accept", "reject"}
  /\ req'[t].id \in AssignmentIds

\* the call that thread t takes is made by the bound customer of the assignment
ByOwner(t) ==
  customer_assignment_table[req'[t].id].customer_id = CustomerIdOf(req'[t].actor)

\* C4 as stated (terminal idempotence): accept or reject by its customer on an
\* assignment that is ACCEPTED, REJECTED or EXPIRED fails with AlreadyResolved,
\* within or after the window, and changes nothing.
C4_AlwaysAlreadyResolved ==
  [][\A t \in Threads :
       (/\ ResponseCall(t)
        /\ ByOwner(t)
        /\ customer_assignment_table[req'[t].id].lot_status \in Terminal)
       => (/\ pc'[t] = "done"
           /\ req'[t].outcome = "AlreadyResolved"
           /\ UNCHANGED db)]_vars

\* C4 as amended: accept or reject by its customer on an assignment that is
\* ACCEPTED, REJECTED or EXPIRED fails and changes nothing; the failure is
\* AlreadyResolved within the window and WindowExpired after it.
C4_TerminalIdempotence ==
  [][\A t \in Threads :
       (/\ ResponseCall(t)
        /\ ByOwner(t)
        /\ customer_assignment_table[req'[t].id].lot_status \in Terminal)
       => (/\ pc'[t] = "done"
           /\ req'[t].outcome =
                IF today > customer_assignment_table[req'[t].id].window_end_date
                THEN "WindowExpired" ELSE "AlreadyResolved"
           /\ UNCHANGED db)]_vars

\* a customer's call on its own terminal assignment, within the window, has
\* been answered AlreadyResolved
C4_Witness ==
  \E t \in Threads :
     /\ pc[t] = "done"
     /\ req[t].op \in {"accept", "reject"}
     /\ req[t].outcome = "AlreadyResolved"
     /\ customer_assignment_table[req[t].id].lot_status \in Terminal
     /\ today <= customer_assignment_table[req[t].id].window_end_date

C6_FireOnce ==
  \A s \in SalesIds : lot_acceptance_webhook[s] <= 1

\* C7: when the confirmation evaluation fires for a sales order, it makes the
\* draft CONFIRMED and the order completed; after it has fired the draft is no
\* longer DRAFT.
C7_FiredMeansConfirmed ==
  \A s \in DOMAIN sales_table :
     lot_acceptance_webhook[s] > 0
     => /\ sales_table[s].status = "CONFIRMED"
        /\ sales_configuration[sales_table[s].sales_config_id].status = "completed"

\* C8: a sales draft is CONFIRMED only if the ACCEPTED assignments of its order
\* number at least the requested quantity.
C8_ConfirmedMeansThreshold ==
  \A s \in DOMAIN sales_table :
     sales_table[s].status = "CONFIRMED"
     => Cardinality(AcceptedLots(s)) >= RequiredQuantity(s)

\* C9 (selection ceiling): the number of lots auto-selected never exceeds
\* requestedQuantity + floor(requestedQuantity * 0.20) of the order's requested
\* quantity.
C9_SelectionCeiling ==
  sel_out.status = 200
  => Len(sel_out.auto_selected) <=
       sel_in.requested_quantity + (sel_in.requested_quantity \div 5)

\* C10 (selection floor): auto-select reports out_of_stock = true or returns a
\* selection of at least requestedQuantity lots (stated for the requests whose
\* requested_qty is the order's requested quantity).
C10_SelectionFloor ==
  (sel_out.status = 200 /\ sel_in.requested_qty = sel_in.requested_quantity)
  => (sel_out.out_of_stock \/ Len(sel_out.auto_selected) >= sel_in.requested_quantity)

\* the reference candidates of a request: the AVAILABLE rows that match the
\* order's variety and fibre length when it specifies them and lie in its
\* priority location when it names one
ReferenceCandidates(inv, cfg) ==
  {l \in SelLots :
     /\ inv[l] = "AVAILABLE"
     /\ cfg.variety = "any" \/ Variety(l) = cfg.variety
     /\ cfg.fibre_length = "any" \/ FibreLength(l) = cfg.fibre_length
     /\ cfg.priority_branch = "any" \/ Branch(l) = cfg.priority_branch}

Elements(rows) == {rows[i] : i \in DOMAIN rows}

C12_ReferenceSelection ==
  LET maxAllowed == sel_in.requested_qty + (sel_in.requested_qty \div 5)
      candidates == sel_out.available_lots
      n == IF maxAllowed < Len(candidates) THEN maxAllowed ELSE Len(candidates)
  IN  sel_out.status = 200
      => /\ Elements(candidates) = ReferenceCandidates(sel_inventory, sel_in)
         /\ \A i, j \in DOMAIN candidates :
               i < j => CreatedAt(candidates[i]) < CreatedAt(candidates[j])
         /\ sel_out.auto_selected = SubSeq(candidates, 1, n)

\* C13 (zero candidates): a call for which no AVAILABLE lot matches the order's
\* filters answers 200 with out_of_stock = true, an empty candidate list and an
\* empty selection, and changes the status of no lot.
C13_ZeroCandidates ==
  [][(sel_out' # sel_out /\ ReferenceCandidates(sel_inventory, sel_in') = {})
     => /\ sel_out'.status = 200
        /\ sel_out'.out_of_stock = TRUE
        /\ sel_out'.available_lots = <<>>
        /\ sel_out'.auto_selected = <<>>
        /\ sel_inventory' = sel_inventory
        /\ inventory_table' = inventory_table]_vars

\* a call with a priority branch in which no AVAILABLE lot lies, while lots of
\* another branch are AVAILABLE, has been answered out_of_stock
C13_Witness ==
  /\ sel_out.status = 200
  /\ sel_out.out_of_stock = TRUE
  /\ sel_in.priority_branch = "B2"
  /\ ReferenceCandidates(sel_inventory, sel_in) = {}
  /\ \E l \in SelLots : sel_inventory[l] = "AVAILABLE"

\* the lots of sales record s
LotsOfSale(s) == {l \in Lots : <<s, l>> \in lot_selected_contract}

\* C14 (draft floor): save-draft with fewer lots than the order's requested
\* quantity is rejected with InsufficientSelection, creates no draft and blocks
\* no lot; hence no call with fewer lots is answered success, and no saved
\* draft has fewer lots than its order requests.
C14_DraftFloor ==
  /\ \A s \in DOMAIN sales_table :
        DraftNotified(s) => Cardinality(LotsOfSale(s)) >= RequiredQuantity(s)
  /\ \A t \in Threads :
        (pc[t] = "done" /\ req[t].op = "save-draft" /\ req[t].id \in Orders
         /\ Cardinality(req[t].lots) < RequestedQuantity(req[t].id))
        => req[t].outcome = "InsufficientSelection"

\* C15 (state after save-draft): when save-draft answers success for an order
\* with lot set S, a sales record with status DRAFT exists, every lot of S is
\* BLOCKED, exactly one PENDING assignment with a window starting today exists
\* for each lot of S, and the order's status is processing.
C15_AfterSaveDraft ==
  \A t \in Threads :
     (pc[t] = "done" /\ req[t].op = "save-draft" /\ req[t].outcome = "created")
     => /\ req[t].sid \in DOMAIN sales_table
        /\ sales_table[req[t].sid].status = "DRAFT"
        /\ \A l \in req[t].lots : inventory_table[l] = "BLOCKED"
        /\ \A l \in req[t].lots :
              Cardinality({a \in AssignmentIds :
                 /\ customer_assignment_table[a].sales_id = req[t].sid
                 /\ customer_assignment_table[a].inventory_id = l
                 /\ customer_assignment_table[a].lot_status = "PENDING"
                 /\ customer_assignment_table[a].window_end_date
                      = today + WindowDays}) = 1
        /\ sales_configuration[req[t].id].status = "processing"

\* the save-draft call that inserted sales record s is still in flight
SaveDraftInFlight(s) ==
  \E t \in Threads : req[t].sid = s /\ pc[t] \in {"sd_block", "sd_config"}

\* C16 (save-draft is transactional): when a step of save-draft fails, no
\* effect of the call persists; once the call is over a sales record with
\* status DRAFT has its lots, they are BLOCKED and its order is processing,
\* and a BLOCKED lot belongs to a sales record.
C16_Transactional ==
  /\ \A t \in Threads :
        (pc[t] = "done" /\ req[t].op = "save-draft" /\ req[t].outcome = "error")
        => req[t].sid \notin DOMAIN sales_table
  /\ \A s \in DOMAIN sales_table :
        (sales_table[s].status = "DRAFT" /\ ~ SaveDraftInFlight(s))
        => /\ LotsOfSale(s) # {}
           /\ \A l \in LotsOfSale(s) : inventory_table[l] = "BLOCKED"
           /\ sales_configuration[sales_table[s].sales_config_id].status
                = "processing"
  /\ \A l \in Lots :
        inventory_table[l] = "BLOCKED"
        => \E s \in DOMAIN sales_table : l \in LotsOfSale(s)

\* thread t makes the step that leaves position label
Leaves(t, label) == pc[t] = label /\ pc'[t] # label

\* the assignment and the lot that the request of thread t is about
RowOf(t) == customer_assignment_table[req[t].id]
LotOf(t) == customer_assignment_table[req[t].id].inventory_id

\* C17 (successful response): a customer's accept or reject of a PENDING
\* assignment within its window is carried out; its update sets the status to
\* ACCEPTED or REJECTED and records the actor and the time; its inventory
\* update leaves the assignment's lot SOLD after an accept and AVAILABLE after
\* a reject.
C17_SuccessfulResponse ==
  [][\A t \in Threads :
       /\ (/\ ResponseCall(t)
           /\ ByOwner(t)
           /\ customer_assignment_table[req'[t].id].lot_status = "PENDING"
           /\ today <= customer_assignment_table[req'[t].id].window_end_date)
          => pc'[t] = (IF req'[t].op = "accept" THEN "acc_update"
                                                ELSE "rej_update")
       /\ (Leaves(t, "acc_update") \/ Leaves(t, "rej_update"))
          => /\ customer_assignment_table'[req[t].id].lot_status =
                  (IF req[t].op = "accept" THEN "ACCEPTED" ELSE "REJECTED")
             /\ customer_assignment_table'[req[t].id].responded_by = req[t].actor
             /\ customer_assignment_table'[req[t].id].responded_at = today
       /\ Leaves(t, "acc_inventory") => inventory_table'[LotOf(t)] = "SOLD"
       /\ Leaves(t, "rej_inventory") => inventory_table'[LotOf(t)] = "AVAILABLE"
       /\ (req[t].op \in {"accept", "reject"} /\ pc[t] \notin {"idle", "done"})
          => (pc'[t] = "done" => req'[t].outcome = "ok")]_vars

\* a customer's accept has succeeded: the assignment is ACCEPTED by that
\* customer on the day of the call and its lot is SOLD
C17_Witness ==
  \E t \in Threads :
     /\ pc[t] = "done"
     /\ req[t].op = "accept"
     /\ req[t].outcome = "ok"
     /\ RowOf(t).lot_status = "ACCEPTED"
     /\ RowOf(t).responded_by = req[t].actor
     /\ RowOf(t).responded_at = today
     /\ inventory_table[LotOf(t)] = "SOLD"

\* C18 (ownership): accept or reject by an actor who is not the bound customer
\* of the assignment fails with Forbidden and changes nothing; an assignment is
\* changed only by a request of its bound customer or by the admin override.
C18_Ownership ==
  [][/\ \A t \in Threads :
          (ResponseCall(t) /\ ~ ByOwner(t))
          => (/\ pc'[t] = "done"
              /\ req'[t].outcome = "Forbidden"
              /\ UNCHANGED db)
     /\ \A a \in AssignmentIds :
          customer_assignment_table'[a] # customer_assignment_table[a]
          => \E t \in Threads :
                /\ pc'[t] # pc[t]
                /\ \/ req[t].op = "override"
                   \/ CustomerIdOf(req[t].actor) =
                        customer_assignment_table[a].customer_id]_vars

\* another customer's call on a PENDING assignment within its window has been
\* answered Forbidden
C18_Witness ==
  \E t \in Threads :
     /\ pc[t] = "done"
     /\ req[t].op \in {"accept", "reject"}
     /\ req[t].actor \in Orders
     /\ req[t].outcome = "Forbidden"
     /\ RowOf(t).lot_status = "PENDING"
     /\ today <= RowOf(t).window_end_date

\* C19 (confirmation only at the threshold): a confirmation event of a sales
\* order is posted only when, at that moment, the ACCEPTED assignments of the
\* order number at least its requested quantity, and only by an accept or an
\* override-accept.
C19_ConfirmationAtThreshold ==
  [][\A s \in SalesIds :
       lot_acceptance_webhook'[s] > lot_acceptance_webhook[s]
       => /\ s \in DOMAIN sales_table
          /\ Cardinality(AcceptedLots(s)) >= RequiredQuantity(s)
          /\ \E t \in Threads :
                /\ Leaves(t, "cc_post")
                /\ req[t].sid = s
                /\ \/ req[t].op = "accept"
                   \/ req[t].op = "override" /\ req[t].action = "accept"]_vars

\* C20 (admin override): an override of an existing assignment is carried out
\* whatever the status, the window and the owner of the assignment; its update
\* sets the status to ACCEPTED or REJECTED, its inventory update leaves the lot
\* SOLD or AVAILABLE, an override-accept goes on to the confirmation evaluation,
\* and the call answers success.
C20_Override ==
  [][\A t \in Threads :
       /\ (/\ pc[t] = "idle" /\ pc'[t] # "idle"
           /\ req'[t].op = "override"
           /\ req'[t].id \in AssignmentIds)
          => pc'[t] = "ov_update"
       /\ Leaves(t, "ov_update")
          => /\ customer_assignment_table'[req[t].id].lot_status =
                  (IF req[t].action = "accept" THEN "ACCEPTED" ELSE "REJECTED")
             /\ customer_assignment_table'[req[t].id].responded_by = req[t].actor
       /\ Leaves(t, "ov_inventory")
          => /\ inventory_table'[LotOf(t)] =
                  (IF req[t].action = "accept" THEN "SOLD" ELSE "AVAILABLE")
             /\ pc'[t] = (IF req[t].action = "accept" THEN "cc_count" ELSE "done")
       /\ (req[t].op = "override" /\ pc[t] \notin {"idle", "done"})
          => (pc'[t] = "done" => req'[t].outcome = "ok")]_vars

\* an override-reject of an assignment that was ACCEPTED, made after the end
\* of its window, has succeeded: the assignment is REJECTED, its lot AVAILABLE
C20_Witness ==
  \E t \in Threads :
     /\ pc[t] = "done"
     /\ req[t].op = "override"
     /\ req[t].action = "reject"
     /\ req[t].outcome = "ok"
     /\ req[t].old = "ACCEPTED"
     /\ today > RowOf(t).window_end_date
     /\ RowOf(t).lot_status = "REJECTED"
     /\ inventory_table[LotOf(t)] = "AVAILABLE"

\* C21 (override audit): every admin override writes an audit entry with the
\* actor, the new status and the prior status, and the prior status it records
\* is the status the assignment had immediately before the override's write,
\* also when another response or override ran concurrently.
C21_OverrideAuditPrior ==
  [][\A t \in Threads :
       /\ Leaves(t, "ov_update")
          => req[t].old = customer_assignment_table[req[t].id].lot_status
       /\ Leaves(t, "ov_inventory")
          => /\ Len(audit_log') = Len(audit_log) + 1
             /\ audit_log'[Len(audit_log')] =
                  [table_name |-> "customer_assignment_table",
                   record_id |-> req[t].id, action |-> "ADMIN_OVERRIDE",
                   user_id |-> req[t].actor, old |-> req[t].old,
                   new |-> customer_assignment_table[req[t].id].lot_status]]_vars

\* C22 (claim-state transitions): every change of the status of a lot is one of
\* AVAILABLE -> BLOCKED, BLOCKED -> SOLD, BLOCKED -> AVAILABLE, SOLD -> AVAILABLE.
C22_LotTransitions ==
  [][\A l \in Lots :
       inventory_table'[l] # inventory_table[l]
       => <<inventory_table[l], inventory_table'[l]>> \in
            {<<"AVAILABLE", "BLOCKED">>, <<"BLOCKED", "SOLD">>,
             <<"BLOCKED", "AVAILABLE">>, <<"SOLD", "AVAILABLE">>}]_vars

\* assignment a exists, is PENDING and its window end is in the past
PendingPastWindow(a) ==
  /\ a \in AssignmentIds
  /\ customer_assignment_table[a].lot_status = "PENDING"
  /\ today > customer_assignment_table[a].window_end_date

\* assignment a is EXPIRED and its lot is AVAILABLE
ExpiredAndReleased(a) ==
  /\ a \in AssignmentIds
  /\ customer_assignment_table[a].lot_status = "EXPIRED"
  /\ inventory_table[customer_assignment_table[a].inventory_id] = "AVAILABLE"

\* C23 (periodic expiry): every assignment that is PENDING with its window end
\* in the past is eventually EXPIRED with its lot AVAILABLE, whether or not a
\* customer issues another request.
C23_EventuallyExpired ==
  \A a \in 1..(MaxSales * NLots) : PendingPastWindow(a) ~> ExpiredAndReleased(a)

\* C24 (expiry pass): an expiry pass changes exactly the assignments that are
\* PENDING with the window end in the past: its update changes no assignment
\* that is within its window or is ACCEPTED or REJECTED, its inventory update
\* changes no lot of such an assignment, and when it is over every assignment
\* it set out to expire is EXPIRED with its lot AVAILABLE.
C24_ExpiryPass ==
  [][\A t \in Threads :
       /\ Leaves(t, "gl_expire")
          => \A a \in AssignmentIds :
                customer_assignment_table'[a] # customer_assignment_table[a]
                => PendingPastWindow(a)
       /\ Leaves(t, "gl_inventory")
          => /\ \A a \in AssignmentIds :
                   inventory_table'[customer_assignment_table[a].inventory_id]
                     # inventory_table[customer_assignment_table[a].inventory_id]
                   => customer_assignment_table[a].lot_status
                        \notin {"ACCEPTED", "REJECTED"}
             /\ \A a \in req[t].lots : ExpiredAndReleased(a)']_vars

\* a request that writes assignment a is in flight
Responding(a) ==
  \E t \in Threads :
     /\ pc[t] \notin {"idle", "done"}
     /\ \/ req[t].op \in {"accept", "reject", "override"} /\ req[t].id = a
        \/ req[t].op = "lots" /\ a \in req[t].lots

\* C25 (audit per transition): no assignment reaches a terminal status without
\* an audit record of it: once the request that made the transition is over,
\* the audit log holds a record of the assignment whose new status is the
\* status of the assignment and whose prior status and actor are recorded.
C25_AuditPerTransition ==
  \A a \in AssignmentIds :
     (customer_assignment_table[a].lot_status \in Terminal /\ ~ Responding(a))
     => \E i \in DOMAIN audit_log :
           /\ audit_log[i].table_name = "customer_assignment_table"
           /\ audit_log[i].record_id = a
           /\ audit_log[i].new = customer_assignment_table[a].lot_status
           /\ audit_log[i].old \in {"PENDING"} \cup Terminal
           /\ audit_log[i].user_id \in Users

\* the successful sampling saves of an indent number
SavesOf(indent) ==
  {i \in DOMAIN audit_log : /\ audit_log[i].action = "SAMPLING_COMPLETED"
                            /\ audit_log[i].record_id = indent}

\* C26 (lots are created once): a sampling save for an indent that has
\* inventory lots, or with duplicate lot numbers, fails and inserts nothing; a
\* successful save creates every lot AVAILABLE; after any sequence of saves,
\* concurrent ones included, each indent was saved at most once and none of
\* its lots exists twice.
C26_CreatedOnce ==
  /\ \A indent \in Indents : Cardinality(SavesOf(indent)) <= 1
  /\ \A i, j \in DOMAIN inventory_rows :
        (/\ i # j
         /\ inventory_rows[i].indent_number = inventory_rows[j].indent_number)
        => inventory_rows[i].lot_number # inventory_rows[j].lot_number
  /\ \A i \in DOMAIN inventory_rows : inventory_rows[i].status = "AVAILABLE"
  /\ \A t \in Threads :
        (/\ pc[t] = "done"
         /\ req[t].op = "sampling-save"
         /\ Cardinality(UniqueLots(req[t].lots)) # Len(req[t].lots))
        => req[t].outcome \in {"NotFound", "AlreadySampled", "DuplicateLots"}

\* the successful UTR submits of payment p
SubmitsOf(p) ==
  {i \in DOMAIN audit_log : /\ audit_log[i].action = "UTR_SUBMITTED"
                            /\ audit_log[i].record_id = p}

\* C30 (UTR set at most once): a submit on a payment that has a UTR fails with
\* 'UTR already submitted' and changes nothing; no step changes a payment that
\* has a UTR, at most one submit per payment is answered success, and a
\* payment is verified only together with a UTR number.
C30_UtrOnce ==
  [][/\ \A p \in Payments :
          /\ payments[p].utr_number # NoUtr => payments'[p] = payments[p]
          /\ Cardinality(SubmitsOf(p)') <= 1
          /\ payments'[p].payment_status = "verified"
             => payments'[p].utr_number # NoUtr
     /\ \A t \in Threads :
          (/\ pc[t] = "idle" /\ pc'[t] # "idle"
           /\ req'[t].op = "utr-submit"
           /\ req'[t].id \in Payments
           /\ payments[req'[t].id].utr_number # NoUtr)
          => (/\ pc'[t] = "done"
              /\ req'[t].outcome = "UTR already submitted"
              /\ UNCHANGED db /\ UNCHANGED payments)]_vars

\* the outcome that the stated precedence gives a call on assignment a by
\* actor u: NotFound, then Forbidden, then WindowExpired, then AlreadyResolved
Precedence(a, u) ==
  IF a \notin AssignmentIds THEN "NotFound"
  ELSE IF customer_assignment_table[a].customer_id # CustomerIdOf(u) THEN "Forbidden"
  ELSE IF today > customer_assignment_table[a].window_end_date THEN "WindowExpired"
  ELSE IF customer_assignment_table[a].lot_status \in Terminal THEN "AlreadyResolved"
  ELSE "proceed"

\* C27 (error precedence): every accept and every reject call is answered with
\* the earliest failure in the order NotFound, Forbidden, WindowExpired,
\* AlreadyResolved that holds for its assignment, actor and date, and goes on
\* to its update only when none holds; the answer does not depend on whether
\* the call is an accept or a reject.
C27_ErrorPrecedence ==
  [][\A t \in Threads :
       (/\ pc[t] = "idle"
        /\ pc'[t] # "idle"
        /\ req'[t].op \in {"accept", "reject"})
       => LET expected == Precedence(req'[t].id, req'[t].actor)
          IN  /\ IF expected = "proceed"
                 THEN pc'[t] = (IF req'[t].op = "accept"
                                THEN "acc_update" ELSE "rej_update")
                 ELSE /\ pc'[t] = "done"
                      /\ req'[t].outcome = expected
                      /\ UNCHANGED db
              /\ \A u \in Users :
                   ResponseCheck(Fetch(req'[t].id), u, today)
                     = RejectCheck(Fetch(req'[t].id), u, today)]_vars

\* a reject by another customer on a resolved assignment whose window is over
\* has been answered Forbidden
C27_Witness ==
  \E t \in Threads :
     /\ pc[t] = "done"
     /\ req[t].op = "reject"
     /\ req[t].actor \in Orders
     /\ req[t].outcome = "Forbidden"
     /\ req[t].id \in AssignmentIds
     /\ customer_assignment_table[req[t].id].lot_status \in Terminal
     /\ today > customer_assignment_table[req[t].id].window_end_date

\* the PENDING assignments of customer c whose window end date is before today
PendingAndOver(c) ==
  {a \in AssignmentIds :
     /\ customer_assignment_table[a].customer_id = c
     /\ customer_assignment_table[a].lot_status = "PENDING"
     /\ today > customer_assignment_table[a].window_end_date}

\* C28 (inclusive window, judged alike): a GET /lots call of a customer files
\* under expired, and goes on to expire, exactly the customer's PENDING
\* assignments with today > window_end_date, leaving those with
\* today <= window_end_date active; and the customer's accept or reject of a
\* PENDING assignment fails with WindowExpired exactly when
\* today > window_end_date and otherwise goes on to its update.
C28_WindowInclusive ==
  [][\A t \in Threads :
       (pc[t] = "idle" /\ pc'[t] # "idle")
       => /\ (req'[t].op = "lots" /\ CustomerIdOf(req'[t].actor) # NoCustomer)
             => LET over == PendingAndOver(CustomerIdOf(req'[t].actor))
                IN  IF over = {}
                    THEN pc'[t] = "done" /\ req'[t].outcome = "ok"
                    ELSE pc'[t] = "gl_expire" /\ req'[t].lots = over
          /\ (/\ ResponseCall(t)
              /\ ByOwner(t)
              /\ customer_assignment_table[req'[t].id].lot_status = "PENDING")
             => IF today > customer_assignment_table[req'[t].id].window_end_date
                THEN pc'[t] = "done" /\ req'[t].outcome = "WindowExpired"
                ELSE pc'[t] \in {"acc_update", "rej_update"}]_vars

\* on the last day of its window a PENDING assignment has been left active by
\* a GET /lots call of its customer
C28_Witness ==
  \E t \in Threads, a \in AssignmentIds :
     /\ pc[t] = "done"
     /\ req[t].op = "lots"
     /\ req[t].outcome = "ok"
     /\ customer_assignment_table[a].customer_id = CustomerIdOf(req[t].actor)
     /\ customer_assignment_table[a].lot_status = "PENDING"
     /\ today = customer_assignment_table[a].window_end_date

\* the ACCEPTED assignments of sales order s number at least its required quantity
ThresholdReached(s) ==
  /\ s \in DOMAIN sales_table
  /\ Cardinality(AcceptedLots(s)) >= RequiredQuantity(s)

\* a confirmation event of sales order s has been posted
ConfirmationEmitted(s) ==
  /\ s \in SalesIds
  /\ lot_acceptance_webhook[s] > 0

\* C29 (confirmation not lost): once the ACCEPTED assignments of a sales order
\* number at least its required quantity, a confirmation event of the order is
\* eventually posted, also when the webhook post or a store read of the
\* confirmation check fails on the accept that crossed the threshold.
C29_ConfirmationNotLost ==
  \A s \in 1..MaxSales : ThresholdReached(s) ~> ConfirmationEmitted(s)

====
